---- MODULE Spec2Model ----
(***************************************************************************)
(* A model of palantir/utils.py: the extremal-cell locator (early_cell,    *)
(* fallback_terminal_cell, find_terminal_states), the eigen-gap selector   *)
(* (determine_multiscale_space) and the diffusion-map construction         *)
(* (run_diffusion_maps).                                                   *)
(*                                                                         *)
(* Indices are Python's: rows, columns and positions count from 0, and a   *)
(* vector or a matrix is a function on 0..n-1.  Python's None is the empty *)
(* tuple and a value v that may be None is the 1-tuple <<v>>.              *)
(***************************************************************************)
EXTENDS Integers, Sequences, FiniteSets, TLC

VARIABLES
    \* ---- the extremal-cell locator ----
    entry,            \* the public function the caller invoked
    ad,               \* the AnnData: [n, m, X (DM_EigenVectors), anno, obs_names]
    celltypes,        \* find_terminal_states: the celltypes argument
    fallback_seed,    \* None or <<seed>>
    hostBound,        \* names bound in the module namespace beyond those the file binds
    hostCelltype,     \* the value of a host-bound global `celltype`
    pc,               \* position in the running call
    rest,             \* find_terminal_states: the cell types the for loop has not reached
    ct,               \* find_terminal_states: the loop variable
    celltype,         \* early_cell / fallback_terminal_cell: the celltype parameter
    dcomp,            \* early_cell: the loop variable (-1: not bound yet)
    fake_early_cell,  \* fallback_terminal_cell: the sampled start cell
    pseudotime,       \* fallback_terminal_cell: pr_res.pseudotime
    terminal_states,  \* find_terminal_states: the pd.Series being built
    warnings,         \* what warn() emitted
    printed,          \* what print() wrote
    outcome,          \* how the public call ended
    \* ---- determine_multiscale_space ----
    dm_res,           \* the argument: [m, EigenValues, n, EigenVectors]
    n_eigs,           \* the parameter, None or <<k>>, as the code reassigns it
    order,            \* np.argsort of the eigen gaps on this build (None: not computed)
    ms_pc,            \* position in the call
    ms_out,           \* how the call ended
    \* ---- run_diffusion_maps ----
    data_df,          \* the argument: a point cloud or a sparse matrix
    knn,              \* the parameter
    alpha,            \* the parameter
    n_components,     \* the parameter
    kNN,              \* the neighbor graph: row -> stored column -> distance
    adaptive_std,     \* the bandwidth of each row
    W,                \* the one-directional weights
    kernel,           \* the kernel, as the code reassigns it
    T,                \* the transition operator
    solved,           \* what the eigensolver returned: [D, V]
    dm_pc,            \* position in the call
    dm_out            \* how the call ended

locVars == <<entry, ad, celltypes, fallback_seed, hostBound, hostCelltype, pc, rest,
             ct, celltype, dcomp, fake_early_cell, pseudotime, terminal_states,
             warnings, printed, outcome>>

msVars == <<dm_res, n_eigs, order, ms_pc, ms_out>>

dmVars == <<data_df, knn, alpha, n_components, kNN, adaptive_std, W, kernel, T, solved,
            dm_pc, dm_out>>

nonLocVars == <<msVars, dmVars>>

nonMsVars == <<locVars, dmVars>>

nonDmVars == <<locVars, msVars>>

vars == <<locVars, msVars, dmVars>>

\* The value of every variable of a function that is not the one being called.
Idle == "idle"

LocIdle ==
    /\ entry = Idle /\ ad = Idle /\ celltypes = Idle /\ fallback_seed = Idle
    /\ hostBound = Idle /\ hostCelltype = Idle /\ pc = Idle /\ rest = Idle
    /\ ct = Idle /\ celltype = Idle /\ dcomp = Idle /\ fake_early_cell = Idle
    /\ pseudotime = Idle /\ terminal_states = Idle /\ warnings = Idle
    /\ printed = Idle /\ outcome = Idle

MsIdle ==
    /\ dm_res = Idle /\ n_eigs = Idle /\ order = Idle /\ ms_pc = Idle /\ ms_out = Idle

DmIdle ==
    /\ data_df = Idle /\ knn = Idle /\ alpha = Idle /\ n_components = Idle
    /\ kNN = Idle /\ adaptive_std = Idle /\ W = Idle /\ kernel = Idle /\ T = Idle
    /\ solved = Idle /\ dm_pc = Idle /\ dm_out = Idle

None == <<>>

Running == [kind |-> "running"]
Return(v) == [kind |-> "return", value |-> v]
Raise(e) == [kind |-> "raise", exc |-> e]

\* A raised exception: its type and the name or category its message carries.
Exc(type, arg) == [type |-> type, arg |-> arg]

Range(n) == 0 .. (n - 1)

(***************************************************************************)
(* Bounds of the locator's inputs.                                         *)
(***************************************************************************)
MaxCells == 2     \* rows of ad
MaxComps == 2     \* columns of DM_EigenVectors
MaxBatch == 2     \* length of the celltypes list
MaxTime == 1      \* pseudotime values are 0..MaxTime
EigVecVals == {0, 1}     \* entries of DM_EigenVectors
CellTypes == {"A", "B"}  \* labels of the annotation column and queried cell types
Seeds == {0}             \* fallback seeds

\* Names the file reads as globals and never binds (no import, no assignment):
\* they resolve only if the host put them into the module namespace.
HostNames == {"palantir", "ms_data", "celltype"}

ObsName(i) == "cell_" \o ToString(i)

Ads ==
    UNION { UNION { { [n |-> n, m |-> m, X |-> X, anno |-> anno,
                       obs_names |-> [i \in Range(n) |-> ObsName(i)]] :
                      X \in [Range(n) -> [Range(m) -> EigVecVals]],
                      anno \in [Range(n) -> CellTypes] } :
                    m \in 0 .. MaxComps } :
            n \in 1 .. MaxCells }

RECURSIVE SeqsUpTo(_, _)
SeqsUpTo(S, k) ==
    IF k = 0 THEN {<<>>}
    ELSE LET shorter == SeqsUpTo(S, k - 1)
         IN  shorter \cup {Append(s, x) : s \in {t \in shorter : Len(t) = k - 1}, x \in S}

(***************************************************************************)
(* numpy's argmax / argmin of a vector: a left-to-right scan that keeps    *)
(* the first position of the extreme value.                                *)
(***************************************************************************)
RECURSIVE ArgScan(_, _, _, _, _)
ArgScan(col, n, i, best, sign) ==
    IF i >= n THEN best
    ELSE ArgScan(col, n, i + 1,
                 IF sign * col[i] > sign * col[best] THEN i ELSE best, sign)

RECURSIVE ArgScanLast(_, _, _, _)
ArgScanLast(col, n, i, best) ==
    IF i >= n THEN best
    ELSE ArgScanLast(col, n, i + 1, IF col[i] >= col[best] THEN i ELSE best)

ArgmaxLast(col, n) == ArgScanLast(col, n, 1, 0)

Argmax(col, n) == ArgScan(col, n, 1, 0, 1)

Argmin(col, n) == ArgScan(col, n, 1, 0, -1)

\* ad.obsm["DM_EigenVectors"][:, d]
Column(a, d) == [i \in Range(a.n) |-> a.X[i][d]]

\* `fallback_seed is not None`
SeedTruthy(seed) == seed # None /\ seed[1] # 0

SeedIsSet(seed) == seed # None

\* terminal_states[ct] = cell on a pd.Series: a new label is added, an old one overwritten
SeriesSet(s, key, value) ==
    [k \in DOMAIN s \cup {key} |-> IF k = key THEN value ELSE s[k]]

EmptySeries == [k \in {} |-> ""]

(***************************************************************************)
(* How a call of early_cell hands its result to its caller: to the user    *)
(* (entry = "early_cell"), or to find_terminal_states' loop body (lines    *)
(* 341-351), whose except clause handles CellNotFoundException only.       *)
(***************************************************************************)
EarlyCellReturns(cell) ==
    IF entry = "early_cell"
    THEN /\ outcome' = Return(cell)
         /\ pc' = "done"
         /\ UNCHANGED <<rest, terminal_states, warnings>>
    ELSE \* line 351
         /\ terminal_states' = SeriesSet(terminal_states, ct, cell)
         /\ rest' = Tail(rest)
         /\ pc' = "fts_for"
         /\ UNCHANGED <<outcome, warnings>>

EarlyCellRaises(e) ==
    IF entry = "early_cell" \/ e.type # "CellNotFoundException"
    THEN /\ outcome' = Raise(e)
         /\ pc' = "done"
         /\ UNCHANGED <<rest, terminal_states, warnings>>
    ELSE \* lines 343-350: the message is built from the global `celltype`
         IF "celltype" \in hostBound
         THEN /\ warnings' = Append(warnings, [names |-> hostCelltype])
              /\ rest' = Tail(rest)
              /\ pc' = "fts_for"
              /\ UNCHANGED <<outcome, terminal_states>>
         ELSE /\ outcome' = Raise(Exc("NameError", "celltype"))
              /\ pc' = "done"
              /\ UNCHANGED <<rest, terminal_states, warnings>>

\* `for dcomp in range(m)`: the next iteration, or the code after the loop
ForNext(d) ==
    IF d < ad.m
    THEN pc' = "ec_max" /\ dcomp' = d
    ELSE pc' = "ec_after" /\ dcomp' = dcomp

Using(cell, ctype, mm, d) == [text |-> "Using", cell |-> cell, celltype |-> ctype,
                              mm |-> mm, dcomp |-> d]

FallingBack == [text |-> "Falling back", cell |-> "", celltype |-> "", mm |-> "",
                dcomp |-> -1]

\* _return_cell
ReturnCell(ec, mm) ==
    /\ printed' = Append(printed, Using(ad.obs_names[ec], celltype, mm, dcomp))
    /\ EarlyCellReturns(ad.obs_names[ec])

\* early_cell, lines 253-255
EC_Max ==
    /\ pc = "ec_max"
    /\ LET ec == Argmax(Column(ad, dcomp), ad.n)
       IN  IF ad.anno[ec] = celltype
           THEN ReturnCell(ec, "max") /\ UNCHANGED dcomp
           ELSE /\ pc' = "ec_min"
                /\ UNCHANGED <<dcomp, printed, outcome, rest, terminal_states, warnings>>
    /\ UNCHANGED nonLocVars
    /\ UNCHANGED <<entry, ad, celltypes, fallback_seed, hostBound, hostCelltype, ct,
                   celltype, fake_early_cell, pseudotime>>

\* early_cell, lines 256-258
EC_Min ==
    /\ pc = "ec_min"
    /\ LET ec == Argmin(Column(ad, dcomp), ad.n)
       IN  IF ad.anno[ec] = celltype
           THEN ReturnCell(ec, "min") /\ UNCHANGED dcomp
           ELSE /\ ForNext(dcomp + 1)
                /\ UNCHANGED <<printed, outcome, rest, terminal_states, warnings>>
    /\ UNCHANGED nonLocVars
    /\ UNCHANGED <<entry, ad, celltypes, fallback_seed, hostBound, hostCelltype, ct,
                   celltype, fake_early_cell, pseudotime>>

\* early_cell, lines 260-272
EC_After ==
    /\ pc = "ec_after"
    /\ IF SeedIsSet(fallback_seed)
       THEN /\ printed' = Append(printed, FallingBack)
            /\ pc' = "fb_sample"
            /\ UNCHANGED <<outcome, rest, terminal_states, warnings>>
       ELSE /\ EarlyCellRaises(Exc("CellNotFoundException", celltype))
            /\ UNCHANGED printed
    /\ UNCHANGED nonLocVars
    /\ UNCHANGED <<entry, ad, celltypes, fallback_seed, hostBound, hostCelltype, ct,
                   celltype, dcomp, fake_early_cell, pseudotime>>

\* fallback_terminal_cell, lines 290-291: .sample(1) of an empty Series raises
FB_Sample ==
    /\ pc = "fb_sample"
    /\ LET other_cells == {i \in Range(ad.n) : ad.anno[i] # celltype}
       IN  IF other_cells = {}
           THEN /\ EarlyCellRaises(Exc("ValueError", "sample"))
                /\ UNCHANGED fake_early_cell
           ELSE /\ \E i \in other_cells : fake_early_cell' = ad.obs_names[i]
                /\ pc' = "fb_run"
                /\ UNCHANGED <<outcome, rest, terminal_states, warnings>>
    /\ UNCHANGED nonLocVars
    /\ UNCHANGED <<entry, ad, celltypes, fallback_seed, hostBound, hostCelltype, ct,
                   celltype, dcomp, pseudotime, printed>>

\* fallback_terminal_cell, lines 292-297: the names palantir and ms_data are
\* looked up in that order; the collaborator returns one pseudotime per row
FB_Run ==
    /\ pc = "fb_run"
    /\ IF "palantir" \notin hostBound
       THEN EarlyCellRaises(Exc("NameError", "palantir")) /\ UNCHANGED pseudotime
       ELSE IF "ms_data" \notin hostBound
       THEN EarlyCellRaises(Exc("NameError", "ms_data")) /\ UNCHANGED pseudotime
       ELSE /\ \E pt \in [Range(ad.n) -> 0 .. MaxTime] : pseudotime' = pt
            /\ pc' = "fb_pick"
            /\ UNCHANGED <<outcome, rest, terminal_states, warnings>>
    /\ UNCHANGED nonLocVars
    /\ UNCHANGED <<entry, ad, celltypes, fallback_seed, hostBound, hostCelltype, ct,
                   celltype, dcomp, fake_early_cell, printed>>

\* pr_res.pseudotime[idx]: the pseudotimes of the rows idx selects, in row order
RECURSIVE Masked(_, _, _, _)
Masked(vec, keep, n, i) ==
    IF i >= n THEN <<>>
    ELSE (IF keep[i] THEN <<vec[i]>> ELSE <<>>) \o Masked(vec, keep, n, i + 1)

\* fallback_terminal_cell, lines 298-305: argmax is a position in the masked
\* Series, and obs_names is indexed with it
FB_Pick ==
    /\ pc = "fb_pick"
    /\ LET idx == [i \in Range(ad.n) |-> ad.anno[i] = celltype]
           sub == Masked(pseudotime, idx, ad.n, 0)
           subv == [i \in Range(Len(sub)) |-> sub[i + 1]]
       IN  IF sub = <<>>
           THEN EarlyCellRaises(Exc("ValueError", "argmax")) /\ UNCHANGED printed
           ELSE LET ec == Argmax(subv, Len(sub))
                IN  /\ printed' = Append(printed,
                                         Using(ad.obs_names[ec], celltype, "latest", -1))
                    /\ EarlyCellReturns(ad.obs_names[ec])
    /\ UNCHANGED nonLocVars
    /\ UNCHANGED <<entry, ad, celltypes, fallback_seed, hostBound, hostCelltype, ct,
                   celltype, dcomp, fake_early_cell, pseudotime>>

\* find_terminal_states, lines 340-342: the next cell type; the name palantir
\* is looked up to reach early_cell
FTS_Iter ==
    /\ pc = "fts_for"
    /\ rest # <<>>
    /\ ct' = Head(rest)
    /\ IF "palantir" \notin hostBound
       THEN /\ outcome' = Raise(Exc("NameError", "palantir"))
            /\ pc' = "done"
            /\ UNCHANGED <<celltype, dcomp>>
       ELSE /\ celltype' = Head(rest)
            /\ ForNext(0)
            /\ UNCHANGED outcome
    /\ UNCHANGED nonLocVars
    /\ UNCHANGED <<entry, ad, celltypes, fallback_seed, hostBound, hostCelltype, rest,
                   fake_early_cell, pseudotime, terminal_states, warnings, printed>>

\* find_terminal_states, line 352
FTS_Return ==
    /\ pc = "fts_for"
    /\ rest = <<>>
    /\ outcome' = Return(terminal_states)
    /\ pc' = "done"
    /\ UNCHANGED nonLocVars
    /\ UNCHANGED <<entry, ad, celltypes, fallback_seed, hostBound, hostCelltype, rest,
                   ct, celltype, dcomp, fake_early_cell, pseudotime, terminal_states,
                   warnings, printed>>

FallbackSeeds == {None} \cup {<<s>> : s \in Seeds}

\* The state when early_cell(ad, celltype, fallback_seed=...) is entered.
InitEarlyCell ==
    /\ entry = "early_cell"
    /\ ad \in Ads
    /\ celltypes = <<>>
    /\ fallback_seed \in FallbackSeeds
    /\ hostBound \in SUBSET (HostNames \ {"celltype"})
    /\ hostCelltype = ""
    /\ rest = <<>>
    /\ ct = ""
    /\ celltype \in CellTypes
    /\ dcomp = IF ad.m > 0 THEN 0 ELSE -1
    /\ pc = IF ad.m > 0 THEN "ec_max" ELSE "ec_after"
    /\ fake_early_cell = ""
    /\ pseudotime = <<>>
    /\ terminal_states = EmptySeries
    /\ warnings = <<>>
    /\ printed = <<>>
    /\ outcome = Running
    /\ MsIdle
    /\ DmIdle

\* The state when find_terminal_states(ad, celltypes, fallback_seed=...) has
\* run line 339.
InitBatch ==
    /\ entry = "find_terminal_states"
    /\ ad \in Ads
    /\ celltypes \in SeqsUpTo(CellTypes, MaxBatch)
    /\ fallback_seed \in FallbackSeeds
    /\ hostBound \in SUBSET HostNames
    /\ hostCelltype \in (IF "celltype" \in hostBound THEN CellTypes ELSE {""})
    /\ rest = celltypes
    /\ ct = ""
    /\ celltype = ""
    /\ dcomp = -1
    /\ pc = "fts_for"
    /\ fake_early_cell = ""
    /\ pseudotime = <<>>
    /\ terminal_states = EmptySeries
    /\ warnings = <<>>
    /\ printed = <<>>
    /\ outcome = Running
    /\ MsIdle
    /\ DmIdle

NextEarlyCell == EC_Max \/ EC_Min \/ EC_After \/ FB_Sample \/ FB_Run \/ FB_Pick

NextBatch == FTS_Iter \/ FTS_Return \/ NextEarlyCell

SpecEarlyCell == InitEarlyCell /\ [][NextEarlyCell]_vars

SpecBatch == InitBatch /\ [][NextBatch]_vars

(***************************************************************************)
(* Claims about the locator.  The extrema are restated here from their     *)
(* definition (the first row that no other row exceeds), not through       *)
(* Argmax / Argmin.                                                        *)
(***************************************************************************)
IsFirstMax(a, d, r) ==
    /\ \A j \in Range(a.n) : a.X[j][d] <= a.X[r][d]
    /\ \A j \in Range(r) : a.X[j][d] < a.X[r][d]

IsFirstMin(a, d, r) ==
    /\ \A j \in Range(a.n) : a.X[j][d] >= a.X[r][d]
    /\ \A j \in Range(r) : a.X[j][d] > a.X[r][d]

\* Row r is the tested row of column d in direction mm and carries label c.
MatchAt(a, c, d, mm, r) ==
    /\ a.anno[r] = c
    /\ \/ mm = "max" /\ IsFirstMax(a, d, r)
       \/ mm = "min" /\ IsFirstMin(a, d, r)

\* The order in which early_cell tests: column by column, max before min.
Rank(d, mm) == 2 * d + (IF mm = "min" THEN 1 ELSE 0)

MatchBefore(a, c, rank) ==
    \E d \in Range(a.m), mm \in {"max", "min"}, r \in Range(a.n) :
        Rank(d, mm) < rank /\ MatchAt(a, c, d, mm, r)

SomeMatch(a, c) == MatchBefore(a, c, 2 * a.m)

IsCellNotFound(o) == o.kind = "raise" /\ o.exc.type = "CellNotFoundException"

\* C1: early_cell tests the columns in order, max before min: while it scans, no
\* earlier position matched; when some position matches it returns the row of
\* the first matching position, prints that position's tag and column, and has
\* not moved on to a later column.
C1_FirstMatchReturned ==
    /\ pc \in {"ec_max", "ec_min"} =>
           ~MatchBefore(ad, celltype, Rank(dcomp, IF pc = "ec_min" THEN "min" ELSE "max"))
    /\ (pc = "done" /\ SomeMatch(ad, celltype)) =>
           /\ outcome.kind = "return"
           /\ \E d \in Range(ad.m), mm \in {"max", "min"}, r \in Range(ad.n) :
                  /\ MatchAt(ad, celltype, d, mm, r)
                  /\ ~MatchBefore(ad, celltype, Rank(d, mm))
                  /\ outcome.value = ad.obs_names[r]
                  /\ printed = <<Using(ad.obs_names[r], celltype, mm, d)>>
                  /\ dcomp = d

\* C1's case: the max of column 0 does not match, its min does and is
\* returned, and the max of column 1 matches too.
C1_Witness ==
    /\ pc = "done"
    /\ outcome.kind = "return"
    /\ ad.m = 2
    /\ printed = <<Using(outcome.value, celltype, "min", 0)>>
    /\ \E r \in Range(ad.n) : MatchAt(ad, celltype, 1, "max", r)

\* C3: when no extremum matches and fallback_seed is set, early_cell returns a
\* row labeled with the cell type whose pseudotime is maximal among the rows
\* with that label, the collaborator having started from a row of another label.
\* (Stated for inputs with at least one column and one row of the cell type.)
C3_FallbackReturnsLatest ==
    (/\ pc = "done"
     /\ ~SomeMatch(ad, celltype)
     /\ fallback_seed # None
     /\ ad.m >= 1
     /\ \E r \in Range(ad.n) : ad.anno[r] = celltype) =>
        /\ outcome.kind = "return"
        /\ \E r \in Range(ad.n) :
               /\ outcome.value = ad.obs_names[r]
               /\ ad.anno[r] = celltype
               /\ \A j \in Range(ad.n) :
                      ad.anno[j] = celltype => pseudotime[j] <= pseudotime[r]
        /\ \E s \in Range(ad.n) :
               fake_early_cell = ad.obs_names[s] /\ ad.anno[s] # celltype

\* C4: early_cell ends with CellNotFoundException exactly when no extremum of
\* any column matches and fallback_seed is None; the exception names the cell
\* type, every column was scanned and nothing was printed; the fallback runs
\* only when no extremum matches and fallback_seed is set.
C4_CellNotFoundIff ==
    /\ pc = "done" =>
           /\ IsCellNotFound(outcome) <=>
                  (~SomeMatch(ad, celltype) /\ fallback_seed = None)
           /\ IsCellNotFound(outcome) =>
                  /\ outcome.exc.arg = celltype
                  /\ dcomp = ad.m - 1
                  /\ printed = <<>>
    /\ (pc \in {"fb_sample", "fb_run", "fb_pick"}
           \/ \E k \in 1 .. Len(printed) :
                  printed[k] = FallingBack \/ printed[k].mm = "latest") =>
           (~SomeMatch(ad, celltype) /\ fallback_seed # None)

\* C4's case: two columns scanned, nothing matched, no seed: the exception.
C4_Witness ==
    /\ pc = "done"
    /\ IsCellNotFound(outcome)
    /\ ad.m = 2
    /\ ad.n = 2
    /\ \E r \in Range(ad.n) : ad.anno[r] = celltype

\* The cell types of the batch that some extremum matches, and the others in
\* the order of the list.
RECURSIVE Unmatched(_, _)
Unmatched(a, cts) ==
    IF cts = <<>> THEN <<>>
    ELSE (IF SomeMatch(a, Head(cts)) THEN <<>> ELSE <<[names |-> Head(cts)]>>)
         \o Unmatched(a, Tail(cts))

\* C2: without a fallback seed, find_terminal_states returns for every list of
\* cell types: the mapping holds exactly the cell types some extremum matches,
\* and one warning naming it was emitted for each of the others.  (Stated for
\* the lists that hold a cell type that is found and one that is not.)
C2_BatchNeverAborts ==
    (/\ pc = "done"
     /\ fallback_seed = None
     /\ \E j, k \in 1 .. Len(celltypes) :
            SomeMatch(ad, celltypes[j]) /\ ~SomeMatch(ad, celltypes[k])) =>
        /\ outcome.kind = "return"
        /\ DOMAIN outcome.value =
               {celltypes[k] : k \in {j \in 1 .. Len(celltypes) :
                                          SomeMatch(ad, celltypes[j])}}
        /\ warnings = Unmatched(ad, celltypes)

(***************************************************************************)
(* Exact arithmetic.  A real number is a fraction <<num, den>> in lowest   *)
(* terms with den > 0; the results of a float division by zero are         *)
(* <<1, 0>> (inf), <<-1, 0>> (-inf) and <<0, 0>> (nan).                    *)
(***************************************************************************)
Abs(x) == IF x < 0 THEN -x ELSE x

Sign(x) == IF x > 0 THEN 1 ELSE IF x < 0 THEN -1 ELSE 0

RECURSIVE GCD(_, _)
GCD(a, b) == IF b = 0 THEN a ELSE GCD(b, a % b)

Frac(num, den) ==
    IF den = 0 THEN <<Sign(num), 0>>
    ELSE LET g == GCD(Abs(num), Abs(den))
         IN  <<Sign(den) * (num \div g), Abs(den) \div g>>

(***************************************************************************)
(* determine_multiscale_space.  An eigenvalue is a multiple of 1/EigDen,   *)
(* held as its numerator.                                                  *)
(***************************************************************************)
MaxEigs == 5     \* eigenpairs in dm_res
EigDen == 4      \* eigenvalues are 0/EigDen .. EigDen/EigDen
MsRows == 1      \* rows of dm_res["EigenVectors"]

GapsNegated(vals, m) == [i \in Range(m - 1) |-> vals[i + 1] - vals[i]]

\* vals[: len(vals) - 1] - vals[1:]
Gaps(vals, m) == [i \in Range(m - 1) |-> vals[i] - vals[i + 1]]

IsPermutation(p, L) ==
    \A i \in Range(L) : \E j \in Range(L) : p[j] = i

\* np.argsort(x): the positions of x in ascending order of value.  The default
\* kind is not stable: the order among equal values is the build's choice.
Argsorts(x, L) ==
    {p \in [Range(L) -> Range(L)] :
        /\ IsPermutation(p, L)
        /\ \A i \in Range(L - 1) : x[p[i]] <= x[p[i + 1]]}

\* lines 154-156: the +1 of the position of the largest gap
MS_Gap ==
    /\ ms_pc = "start"
    /\ n_eigs = None
    /\ IF dm_res.m - 1 < 1
       THEN \* [-1] of an empty argsort
            /\ ms_out' = Raise(Exc("IndexError", "argsort[-1]"))
            /\ ms_pc' = "done"
            /\ UNCHANGED <<n_eigs, order>>
       ELSE /\ \E p \in Argsorts(Gaps(dm_res.EigenValues, dm_res.m), dm_res.m - 1) :
                   /\ order' = p
                   /\ n_eigs' = <<p[dm_res.m - 2] + 1>>
            /\ ms_pc' = "if"
            /\ UNCHANGED ms_out
    /\ UNCHANGED dm_res
    /\ UNCHANGED nonMsVars

\* lines 157-158: below 3, the +1 of the position of the second largest gap
MS_Second ==
    /\ ms_pc = "if"
    /\ n_eigs[1] < 3
    /\ IF dm_res.m - 1 < 2
       THEN \* [-2] of an argsort of length 1
            /\ ms_out' = Raise(Exc("IndexError", "argsort[-2]"))
            /\ ms_pc' = "done"
            /\ UNCHANGED n_eigs
       ELSE /\ n_eigs' = <<order[dm_res.m - 3] + 1>>
            /\ ms_pc' = "scale"
            /\ UNCHANGED ms_out
    /\ UNCHANGED <<dm_res, order>>
    /\ UNCHANGED nonMsVars

\* One entry of EigenVectors[:, j] * (eig_vals / (1 - eig_vals)), float division
Scaled(v, lam) == Frac(v * lam, EigDen - lam)

\* lines 161-166: columns 1 .. n_eigs-1, each scaled by its eigenvalue; the
\* Series lookup fails on a label that is no eigenvalue's
MS_Scale ==
    /\ \/ ms_pc = "start" /\ n_eigs # None
       \/ ms_pc = "if" /\ n_eigs[1] >= 3
       \/ ms_pc = "scale"
    /\ LET use_eigs == [k \in Range(n_eigs[1] - 1) |-> k + 1]
       IN  IF \E k \in DOMAIN use_eigs : use_eigs[k] >= dm_res.m
           THEN ms_out' = Raise(Exc("KeyError", "EigenValues"))
           ELSE ms_out' = Return(
                    [i \in Range(dm_res.n) |->
                        [k \in DOMAIN use_eigs |->
                            Scaled(dm_res.EigenVectors[i][use_eigs[k]],
                                   dm_res.EigenValues[use_eigs[k]])]])
    /\ ms_pc' = "done"
    /\ UNCHANGED <<dm_res, n_eigs, order>>
    /\ UNCHANGED nonMsVars

\* EigenValues as run_diffusion_maps delivers them: sorted descending
DescendingSeqs(m) ==
    {v \in [Range(m) -> 0 .. EigDen] : \A i \in Range(m - 1) : v[i] >= v[i + 1]}

\* Eigenvector matrices: entries -1, 0, 1 in one of three arrangements
EigenVectorMatrices(n, m) ==
    {[i \in Range(n) |-> [j \in Range(m) |-> ((i + j + shift) % 3) - 1]] : shift \in 0 .. 2}

DmResults ==
    UNION { { [m |-> m, EigenValues |-> vals, n |-> MsRows, EigenVectors |-> vecs] :
                vals \in DescendingSeqs(m), vecs \in EigenVectorMatrices(MsRows, m) } :
            m \in 1 .. MaxEigs }

\* The state when determine_multiscale_space(dm_res, n_eigs) is entered.
InitMultiscale ==
    /\ dm_res \in DmResults
    /\ n_eigs \in {None} \cup {<<k>> : k \in 0 .. MaxEigs + 1}
    /\ order = None
    /\ ms_pc = "start"
    /\ ms_out = Running
    /\ LocIdle
    /\ DmIdle

NextMultiscale == MS_Gap \/ MS_Second \/ MS_Scale

SpecMultiscale == InitMultiscale /\ [][NextMultiscale]_vars

(***************************************************************************)
(* Claims about determine_multiscale_space.  `order` is set exactly when   *)
(* the call came without n_eigs and computed the gaps.                     *)
(***************************************************************************)
\* vals[i] - vals[i+1], restated from the argument
GapAt(i) == dm_res.EigenValues[i] - dm_res.EigenValues[i + 1]

GapPositions == Range(dm_res.m - 1)

\* g holds a largest gap among the positions S
LargestIn(g, S) == g \in S /\ \A j \in S : GapAt(j) <= GapAt(g)

SelectedReturned == ms_pc = "done" /\ order # None /\ ms_out.kind = "return"

\* C6: without n_eigs, the selected n_eigs is the position of a largest gap
\* plus 1, or, when that is below 3, the position of a largest gap among the
\* others plus 1; a single largest gap at g >= 3 selects g + 1; the output
\* holds the n_eigs - 1 columns 1 .. n_eigs-1, column 0 dropped.
C6_EigenGapSelection ==
    /\ (ms_pc = "if" /\ order # None) => LargestIn(n_eigs[1] - 1, GapPositions)
    /\ SelectedReturned =>
           /\ \E g1 \in GapPositions :
                  /\ LargestIn(g1, GapPositions)
                  /\ IF g1 + 1 >= 3
                     THEN n_eigs = <<g1 + 1>>
                     ELSE LargestIn(n_eigs[1] - 1, GapPositions \ {g1})
           /\ \A g \in GapPositions :
                  (g >= 3 /\ \A j \in GapPositions \ {g} : GapAt(j) < GapAt(g)) =>
                      n_eigs = <<g + 1>>
           /\ \A i \in Range(dm_res.n) :
                  /\ DOMAIN ms_out.value[i] = Range(n_eigs[1] - 1)
                  /\ \A k \in Range(n_eigs[1] - 1) :
                         ms_out.value[i][k] =
                             Frac(dm_res.EigenVectors[i][k + 1] * dm_res.EigenValues[k + 1],
                                  EigDen - dm_res.EigenValues[k + 1])

\* C6's case: the single largest gap is at position 0, so the value 1 is below
\* 3; the single second largest gap is at position 3 and n_eigs becomes 4.
C6_Witness ==
    /\ SelectedReturned
    /\ dm_res.m = 5
    /\ \A j \in GapPositions \ {0} : GapAt(j) < GapAt(0)
    /\ \A j \in GapPositions \ {0, 3} : GapAt(j) < GapAt(3)
    /\ n_eigs = <<4>>
    /\ \A i \in Range(dm_res.n) : DOMAIN ms_out.value[i] = 0 .. 2

\* C10: for m >= 3 eigenvalues sorted descending and no n_eigs given, the
\* selected n_eigs is in 2 .. m-1 and the embedding has at least one column.
\* (Stated for sequences whose gaps are pairwise distinct, where the sort's
\* order among equal gaps plays no part.)
C10_SelectionNeverEmpty ==
    (/\ SelectedReturned
     /\ dm_res.m >= 3
     /\ \A i, j \in GapPositions : i # j => GapAt(i) # GapAt(j)) =>
        /\ 2 <= n_eigs[1]
        /\ n_eigs[1] <= dm_res.m - 1
        /\ \A i \in Range(dm_res.n) : DOMAIN ms_out.value[i] # {}

(***************************************************************************)
(* run_diffusion_maps, lines 60-100: the kernel and the transition         *)
(* operator.  Floats are exact fractions; exp is known at the quotients    *)
(* dist / adaptive_std the bounded inputs produce, rounded up to a         *)
(* multiple of 1/20.  A dense data_df is a cloud of distinct points on a   *)
(* line, so that every stored distance is a true, non-zero distance.       *)
(***************************************************************************)
MaxPoints == 3    \* rows of a dense data_df
MaxCoord == 3     \* its coordinates are 0..MaxCoord
MaxSparse == 2    \* rows of a sparse data_df
Weights == {0, 1}     \* its entries
Knns == {2, 3, 6}     \* knn: floor(knn / 3) is 0, 1, 2
Alphas == {0, 1}      \* alpha

Zero == <<0, 1>>

One == <<1, 1>>

RAdd(a, b) ==
    LET g == GCD(a[2], b[2])
    IN  Frac(a[1] * (b[2] \div g) + b[1] * (a[2] \div g), (a[2] \div g) * b[2])

RMul(a, b) ==
    LET g1 == GCD(Abs(a[1]), b[2])
        g2 == GCD(Abs(b[1]), a[2])
    IN  Frac((a[1] \div g1) * (b[1] \div g2), (a[2] \div g2) * (b[2] \div g1))

RInv(a) == Frac(a[2], a[1])

RECURSIVE RPow(_, _)
RPow(a, k) == IF k = 0 THEN One ELSE RMul(a, RPow(a, k - 1))

\* sum of f[0] .. f[n-1]
RECURSIVE RSum(_, _)
RSum(f, n) == IF n = 0 THEN Zero ELSE RAdd(RSum(f, n - 1), f[n - 1])

\* np.exp(-q) for q = dist / adaptive_std
ExpNeg(q) ==
    CASE q = <<1, 4>> -> Frac(16, 20)
      [] q = <<1, 3>> -> Frac(15, 20)
      [] q = <<1, 2>> -> Frac(13, 20)
      [] q = <<2, 3>> -> Frac(11, 20)
      [] q = <<3, 4>> -> Frac(10, 20)
      [] q = <<1, 1>> -> Frac(8, 20)
      [] q = <<4, 3>> -> Frac(6, 20)
      [] q = <<3, 2>> -> Frac(5, 20)
      [] q = <<2, 1>> -> Frac(3, 20)
      [] q = <<3, 1>> -> Frac(1, 20)
      [] q = <<4, 1>> -> Frac(1, 20)

\* sc.pp.neighbors: row i stores some of its nearest other points, at most
\* n_neighbors of them, each with its distance
RowGraphs(df, k, i) ==
    LET others == Range(df.N) \ {i}
        dist(j) == Abs(df.values[i] - df.values[j])
    IN  {[j \in S |-> dist(j)] :
            S \in {S \in SUBSET others :
                      /\ Cardinality(S) <= k
                      /\ \A near \in S, far \in others \ S : dist(near) <= dist(far)}}

RECURSIVE GraphsFrom(_, _, _)
GraphsFrom(df, k, i) ==
    IF i = df.N THEN {[r \in {} |-> 0]}
    ELSE {[r \in {i} \cup DOMAIN g |-> IF r = i THEN row ELSE g[r]] :
             row \in RowGraphs(df, k, i), g \in GraphsFrom(df, k, i + 1)}

\* kNN.data[kNN.indptr[i] : kNN.indptr[i + 1]]: the stored distances of row i,
\* by column
RECURSIVE RowData(_, _, _)
RowData(row, n, j) ==
    IF j >= n THEN <<>>
    ELSE (IF j \in DOMAIN row THEN <<row[j]>> ELSE <<>>) \o RowData(row, n, j + 1)

RECURSIVE Insert(_, _)
Insert(sorted, x) ==
    IF sorted = <<>> \/ x <= Head(sorted) THEN <<x>> \o sorted
    ELSE <<Head(sorted)>> \o Insert(Tail(sorted), x)

\* np.sort
RECURSIVE Sort(_)
Sort(xs) == IF xs = <<>> THEN <<>> ELSE Insert(Sort(Tail(xs)), Head(xs))

\* xs[k] in Python: a negative k counts from the end
InRange(xs, k) == -Len(xs) <= k /\ k < Len(xs)

At(xs, k) == IF k >= 0 THEN xs[k + 1] ELSE xs[Len(xs) + k + 1]

\* line 69
AdaptiveK(k) == k \div 3

Transpose(M, n) == [i \in Range(n) |-> [j \in Range(n) |-> M[j][i]]]

MAdd(A, B, n) == [i \in Range(n) |-> [j \in Range(n) |-> RAdd(A[i][j], B[i][j])]]

KernelOneDirection(w, n) == w

\* line 85
KernelOf(w, n) == MAdd(w, Transpose(w, n), n)

\* kernel.sum(axis=1)
RowSums(K, n) == [i \in Range(n) |-> RSum(K[i], n)]

\* csr_matrix((D, (range(N), range(N)))).dot(K)
DiagDot(D, K, n) == [i \in Range(n) |-> [j \in Range(n) |-> RMul(D[i], K[i][j])]]

\* K.dot(csr_matrix((D, (range(N), range(N)))))
DotDiag(K, D, n) == [i \in Range(n) |-> [j \in Range(n) |-> RMul(K[i][j], D[j])]]

\* lines 94-96
AlphaNormalized(K, a, n) ==
    LET D == RowSums(K, n)
        Dp == [i \in Range(n) |-> IF D[i] # Zero THEN RInv(RPow(D[i], a)) ELSE D[i]]
    IN  DotDiag(DiagDot(Dp, K, n), Dp, n)

TransitionByColumns(K, n) ==
    LET D == RowSums(K, n)
        Di == [i \in Range(n) |-> IF D[i] # Zero THEN RInv(D[i]) ELSE D[i]]
    IN  DotDiag(K, Di, n)

\* lines 90 / 97, 99-100
Transition(K, n) ==
    LET D == RowSums(K, n)
        Di == [i \in Range(n) |-> IF D[i] # Zero THEN RInv(D[i]) ELSE D[i]]
    IN  DiagDot(Di, K, n)

\* lines 62-66
DM_Neighbors ==
    /\ dm_pc = "start"
    /\ ~data_df.sparse
    /\ kNN' \in GraphsFrom(data_df, knn, 0)
    /\ dm_pc' = "adaptive"
    /\ UNCHANGED <<data_df, knn, alpha, n_components, adaptive_std, W, kernel, T, solved,
                   dm_out>>
    /\ UNCHANGED nonDmVars

\* lines 69-75: the element adaptive_k - 1 of each row's sorted distances
DM_AdaptiveStd ==
    /\ dm_pc = "adaptive"
    /\ LET adaptive_k == AdaptiveK(knn)
           sorted(i) == Sort(RowData(kNN[i], data_df.N, 0))
       IN  IF \E i \in Range(data_df.N) : ~InRange(sorted(i), adaptive_k - 1)
           THEN /\ dm_out' = Raise(Exc("IndexError", "adaptive_std"))
                /\ dm_pc' = "done"
                /\ UNCHANGED adaptive_std
           ELSE /\ adaptive_std' = [i \in Range(data_df.N) |-> At(sorted(i), adaptive_k - 1)]
                /\ dm_pc' = "kernel"
                /\ UNCHANGED dm_out
    /\ UNCHANGED <<data_df, knn, alpha, n_components, kNN, W, kernel, T, solved>>
    /\ UNCHANGED nonDmVars

\* lines 78-85
DM_Kernel ==
    /\ dm_pc = "kernel"
    /\ LET w == [i \in Range(data_df.N) |-> [j \in Range(data_df.N) |->
                    IF j \in DOMAIN kNN[i]
                    THEN ExpNeg(Frac(kNN[i][j], adaptive_std[i]))
                    ELSE Zero]]
       IN  /\ W' = w
           /\ kernel' = KernelOf(w, data_df.N)
    /\ dm_pc' = "markov"
    /\ UNCHANGED <<data_df, knn, alpha, n_components, kNN, adaptive_std, T, solved, dm_out>>
    /\ UNCHANGED nonDmVars

\* lines 86-87
DM_Sparse ==
    /\ dm_pc = "start"
    /\ data_df.sparse
    /\ kernel' = data_df.values
    /\ dm_pc' = "markov"
    /\ UNCHANGED <<data_df, knn, alpha, n_components, kNN, adaptive_std, W, T, solved,
                   dm_out>>
    /\ UNCHANGED nonDmVars

\* lines 90-100
DM_Markov ==
    /\ dm_pc = "markov"
    /\ LET K == IF alpha > 0 THEN AlphaNormalized(kernel, alpha, data_df.N) ELSE kernel
       IN  /\ kernel' = K
           /\ T' = Transition(K, data_df.N)
    /\ dm_pc' = "eigs"
    /\ UNCHANGED <<data_df, knn, alpha, n_components, kNN, adaptive_std, W, solved, dm_out>>
    /\ UNCHANGED nonDmVars

Increasing(f, n) == \A i \in Range(n - 1) : f[i] < f[i + 1]

\* Point clouds: distinct points on a line, in increasing order
DenseInputs ==
    UNION { { [sparse |-> FALSE, N |-> n, values |-> x] :
                x \in {f \in [Range(n) -> 0 .. MaxCoord] : Increasing(f, n)} } :
            n \in 1 .. MaxPoints }

SparseInputs ==
    UNION { { [sparse |-> TRUE, N |-> n,
               values |-> [i \in Range(n) |-> [j \in Range(n) |-> Frac(x[i][j], 1)]]] :
                x \in [Range(n) -> [Range(n) -> Weights]] } :
            n \in 1 .. MaxSparse }

\* The state when run_diffusion_maps(data_df, n_components, knn, alpha) is entered.
InitKernel ==
    /\ \/ data_df \in DenseInputs
       \/ data_df \in SparseInputs
    /\ knn \in (IF data_df.sparse THEN {30} ELSE Knns)  \* unused on a sparse input
    /\ alpha \in Alphas
    /\ n_components = 10
    /\ kNN = None
    /\ adaptive_std = None
    /\ W = None
    /\ kernel = None
    /\ T = None
    /\ solved = None
    /\ dm_pc = "start"
    /\ dm_out = Running
    /\ LocIdle
    /\ MsIdle

NextKernel == DM_Neighbors \/ DM_AdaptiveStd \/ DM_Kernel \/ DM_Sparse \/ DM_Markov

SpecKernel == InitKernel /\ [][NextKernel]_vars

(***************************************************************************)
(* Claims about the kernel and the transition operator.                    *)
(***************************************************************************)
\* The kernel before the alpha-normalization of lines 92-97
KernelBuilt == IF data_df.sparse THEN data_df.values ELSE KernelOf(W, data_df.N)

Degree(K, i) == RSum(K[i], data_df.N)

Symmetric(K) == \A i, j \in Range(data_df.N) : K[i][j] = K[j][i]

MarkovDone == dm_pc = "eigs"

PastAdaptiveStd == ~data_df.sparse /\ dm_pc \in {"done", "kernel", "markov", "eigs"}

\* C7: on a dense point cloud of at least three points with knn >= 3, whatever
\* rows of the neighbor graph store fewer than knn neighbours (fewer than
\* floor(knn/3), or none), the call raises no error and the adaptive bandwidth
\* of row i is the floor(knn/3)-th smallest stored distance of row i.
C7_NoErrorOnShortRows ==
    (PastAdaptiveStd /\ data_df.N >= 3 /\ knn >= 3) =>
        /\ dm_out = Running
        /\ \A i \in Range(data_df.N) :
              adaptive_std[i] = Sort(RowData(kNN[i], data_df.N, 0))[knn \div 3]

\* C8 as stated: the kernel T is built from, which is the kernel returned, equals
\* its transpose, whichever path constructed it.
C8_KernelSymmetric ==
    dm_pc \in {"markov", "eigs"} => Symmetric(kernel)

\* C8, amended: on the dense path the kernel is W + W^T, where W[i,j] is
\* exp(-dist(i,j) / adaptive_std[i]) on the stored edges and 0 elsewhere, and
\* it equals its transpose; a sparse data_df is used as the kernel as it is,
\* and the kernel equals its transpose when that matrix does; in both cases
\* the alpha-normalization preserves the symmetry.
C8_KernelSymmetricWhenBuilt ==
    /\ (dm_pc \in {"markov", "eigs"} /\ ~data_df.sparse) =>
          /\ \A i, j \in Range(data_df.N) :
                /\ W[i][j] = IF j \in DOMAIN kNN[i]
                             THEN ExpNeg(Frac(kNN[i][j], adaptive_std[i]))
                             ELSE Zero
                /\ KernelBuilt[i][j] = RAdd(W[i][j], W[j][i])
          /\ dm_pc = "markov" => kernel = KernelBuilt
          /\ Symmetric(kernel)
    /\ (dm_pc \in {"markov", "eigs"} /\ data_df.sparse) =>
          /\ dm_pc = "markov" => kernel = data_df.values
          /\ Symmetric(data_df.values) => Symmetric(kernel)

\* A dense kernel with a one-directional edge (W is not symmetric) and a
\* mutual pair, after alpha-normalization has changed it
C8_Witness ==
    /\ MarkovDone
    /\ ~data_df.sparse
    /\ alpha > 0
    /\ kernel # KernelBuilt
    /\ Symmetric(kernel)
    /\ \E i, j \in Range(data_df.N) : W[i][j] # Zero /\ W[j][i] = Zero
    /\ \E i, j \in Range(data_df.N) : i # j /\ W[i][j] # Zero /\ W[j][i] # Zero

(***************************************************************************)
(* run_diffusion_maps, lines 101-123: the eigenpairs and the result.  The  *)
(* eigensolver is scipy's: what it returns is any n_components complex     *)
(* eigenpairs, in any order, or an exception.  A complex number is         *)
(* <<re, im>>; an eigenvalue's real part is a multiple of 1/EigDen, held   *)
(* as its numerator.                                                       *)
(***************************************************************************)
MaxTag == 2              \* the solver's eigenvectors are numbered 0..MaxTag
Components == {1, 3}     \* n_components

Real(z) == z[1]

\* The eigenvector numbered t: entries -1, 0, 1, complex when t is odd
SolverVector(t, n) == [i \in Range(n) |-> <<((i + t) % 3) - 1, t % 2>>]

\* eigs(T, n_components, ...) when it returns: D and V, column j of V paired
\* with D[j]
SolverResults(n, k) ==
    {[D |-> [j \in Range(k) |-> <<e[j][1], e[j][2] % 2>>],
      V |-> [i \in Range(n) |-> [j \in Range(k) |-> SolverVector(e[j][2], n)[i]]]] :
        e \in [Range(k) -> (0 .. EigDen) \X (0 .. MaxTag)]}

Unreversed(p, L) == p

\* p[::-1]
Reversed(p, L) == [i \in Range(L) |-> p[L - 1 - i]]

\* V[:, inds]
TakeColumns(V, inds, n, k) == [i \in Range(n) |-> [j \in Range(k) |-> V[i][inds[j]]]]

RECURSIVE SumSq(_, _, _)
SumSq(V, j, n) == IF n = 0 THEN 0 ELSE SumSq(V, j, n - 1) + V[n - 1][j] * V[n - 1][j]

\* lines 112-113: every entry over its column's norm, the square root of
\* normSq; a column of zeros has norm 0
Normalize(V, n, k) ==
    [i \in Range(n) |-> [j \in Range(k) |-> [num |-> V[i][j], normSq |-> SumSq(V, j, n)]]]

\* lines 102-104
DM_Eigs ==
    /\ dm_pc = "eigs"
    /\ \/ /\ solved' \in SolverResults(data_df.N, n_components)
          /\ dm_pc' = "sort"
          /\ UNCHANGED dm_out
       \/ /\ dm_out' = Raise(Exc("ArpackNoConvergence", "eigs"))
          /\ dm_pc' = "done"
          /\ UNCHANGED solved
    /\ UNCHANGED <<data_df, knn, alpha, n_components, kNN, adaptive_std, W, kernel, T>>
    /\ UNCHANGED nonDmVars

\* lines 105-123
DM_Finish ==
    /\ dm_pc = "sort"
    /\ LET D == [j \in Range(n_components) |-> Real(solved.D[j])]
           V == [i \in Range(data_df.N) |->
                    [j \in Range(n_components) |-> Real(solved.V[i][j])]]
       IN  \E p \in Argsorts(D, n_components) :
              LET inds == Reversed(p, n_components)
              IN  dm_out' = Return(
                      [T |-> T,
                       EigenVectors |-> Normalize(
                           TakeColumns(V, inds, data_df.N, n_components),
                           data_df.N, n_components),
                       EigenValues |-> [j \in Range(n_components) |-> D[inds[j]]],
                       kernel |-> kernel])
    /\ dm_pc' = "done"
    /\ UNCHANGED <<data_df, knn, alpha, n_components, kNN, adaptive_std, W, kernel, T,
                   solved>>
    /\ UNCHANGED nonDmVars

\* The adjacency matrix of the complete graph on n points
CompleteGraph(n) ==
    [sparse |-> TRUE, N |-> n,
     values |-> [i \in Range(n) |-> [j \in Range(n) |-> IF i = j THEN Zero ELSE One]]]

\* The state when run_diffusion_maps(data_df, n_components, alpha=alpha) is
\* entered with an adjacency matrix large enough for n_components eigenpairs.
InitEigen ==
    /\ n_components \in Components
    /\ data_df = CompleteGraph(n_components + 2)
    /\ knn = 30
    /\ alpha \in Alphas
    /\ kNN = None
    /\ adaptive_std = None
    /\ W = None
    /\ kernel = None
    /\ T = None
    /\ solved = None
    /\ dm_pc = "start"
    /\ dm_out = Running
    /\ LocIdle
    /\ MsIdle

NextEigen == DM_Sparse \/ DM_Markov \/ DM_Eigs \/ DM_Finish

SpecEigen == InitEigen /\ [][NextEigen]_vars

(***************************************************************************)
(* Claims about the eigenpairs of the result.                              *)
(***************************************************************************)
Returned == dm_pc = "done" /\ dm_out.kind = "return"

\* The real part of column c of the solver's V, normalized
SolverColumn(c) ==
    LET n == data_df.N
        s == SumSq([i \in Range(n) |-> <<Real(solved.V[i][c])>>], 1, n)
    IN  [i \in Range(n) |-> [num |-> Real(solved.V[i][c]), normSq |-> s]]

ResultColumn(j) == [i \in Range(data_df.N) |-> dm_out.value.EigenVectors[i][j]]

\* C9: in the result, EigenValues is descending, and one permutation of the
\* solver's eigenpairs gives both EigenValues and the columns of EigenVectors:
\* EigenValues[j] is the real part of the eigenvalue the solver returned at
\* p[j] and column j of EigenVectors is the real part, normalized, of the
\* eigenvector returned at p[j], with no pair dropped or duplicated.
C9_EigenpairsSortedTogether ==
    Returned =>
        /\ \A j \in Range(n_components - 1) :
              dm_out.value.EigenValues[j] >= dm_out.value.EigenValues[j + 1]
        /\ \E p \in [Range(n_components) -> Range(n_components)] :
              /\ IsPermutation(p, n_components)
              /\ \A j \in Range(n_components) :
                    /\ dm_out.value.EigenValues[j] = Real(solved.D[p[j]])
                    /\ ResultColumn(j) = SolverColumn(p[j])

\* The solver returned three eigenpairs in ascending order of distinct real
\* parts, one of them complex, with three different eigenvectors
C9_Witness ==
    /\ Returned
    /\ n_components = 3
    /\ Real(solved.D[0]) < Real(solved.D[1])
    /\ Real(solved.D[1]) < Real(solved.D[2])
    /\ \E j \in Range(3) : solved.D[j][2] # 0
    /\ \A i, j \in Range(3) : i # j => SolverColumn(i) # SolverColumn(j)
    /\ dm_out.value.EigenValues[0] = Real(solved.D[2])
    /\ ResultColumn(0) = SolverColumn(2)
    /\ ResultColumn(2) = SolverColumn(0)

====
